---- MODULE Spec2Model ----
(***************************************************************************)
(* Model of amtrak_monitor_selenium.py: the AmtrakSeleniumMonitor price    *)
(* monitor.  Times are seconds, prices are cents, texts are sequences of   *)
(* one-character strings.  The two SQLite tables are sequences of rows.    *)
(***************************************************************************)
EXTENDS Integers, Sequences, FiniteSets, TLC

\* ------------------------------------------------------------------ bounds
MaxBatch == 2       \* result rows one search page shows
MaxHist == 3        \* rows the price_history table may hold
MaxCycles == 2      \* monitoring cycles run over all launches
MaxDays == 6        \* the largest num_days get_working_days is applied to

\* ------------------------------------------------------- program constants
PRICE_THRESHOLD == 2000
CHECK_INTERVAL_MINUTES == 120
NUM_DAYS == 5
PACING_SECONDS == 3
BACKOFF_SECONDS == 300
DEDUP_SECONDS == 86400
SECONDS_PER_DAY == 86400

MORNING_START == <<"0", "8", ":", "0", "0">>
MORNING_END == <<"0", "8", ":", "3", "0">>
AFTERNOON_START == <<"1", "4", ":", "0", "0">>
AFTERNOON_END == <<"1", "7", ":", "0", "0">>

STATIONS ==
  [PJC |-> "Princeton Junction",
   PHL |-> "Philadelphia, PA - 30th Street Station",
   TRE |-> "Trenton"]

\* The checks with the two afternoon checks the other way round.
RouteSpecs_Swapped ==
  << [origin |-> "PJC", destination |-> "PHL", time_start |-> MORNING_START,
      time_end |-> MORNING_END, route_type |-> "MORNING_OUTBOUND"],
     [origin |-> "PHL", destination |-> "TRE", time_start |-> AFTERNOON_START,
      time_end |-> AFTERNOON_END, route_type |-> "AFTERNOON_RETURN_TRE"],
     [origin |-> "PHL", destination |-> "PJC", time_start |-> AFTERNOON_START,
      time_end |-> AFTERNOON_END, route_type |-> "AFTERNOON_RETURN_PJC"] >>

\* The three checks run_monitoring_cycle makes for each date, in its order.
RouteSpecs ==
  << [origin |-> "PJC", destination |-> "PHL", time_start |-> MORNING_START,
      time_end |-> MORNING_END, route_type |-> "MORNING_OUTBOUND"],
     [origin |-> "PHL", destination |-> "PJC", time_start |-> AFTERNOON_START,
      time_end |-> AFTERNOON_END, route_type |-> "AFTERNOON_RETURN_PJC"],
     [origin |-> "PHL", destination |-> "TRE", time_start |-> AFTERNOON_START,
      time_end |-> AFTERNOON_END, route_type |-> "AFTERNOON_RETURN_TRE"] >>

\* ------------------------------------------------------------ text helpers
Digits == <<"0", "1", "2", "3", "4", "5", "6", "7", "8", "9">>

IsDigit(c) == \E i \in 1..10 : Digits[i] = c

DigitVal(c) == (CHOOSE i \in 1..10 : Digits[i] = c) - 1

\* str.upper() on the letters the model's texts use.
Upper(c) ==
  CASE c = "a" -> "A"
    [] c = "p" -> "P"
    [] c = "m" -> "M"
    [] OTHER -> c

UpperAll(s) == [i \in 1..Len(s) |-> Upper(s[i])]

RECURSIVE LStrip(_)
LStrip(s) == IF s # <<>> /\ Head(s) = " " THEN LStrip(Tail(s)) ELSE s

RECURSIVE RStrip(_)
RStrip(s) ==
  IF s # <<>> /\ s[Len(s)] = " " THEN RStrip(SubSeq(s, 1, Len(s) - 1)) ELSE s

\* str.strip()
Strip(s) == RStrip(LStrip(s))

\* str.replace(c, '')
RECURSIVE Remove(_, _)
Remove(s, c) ==
  IF s = <<>> THEN <<>>
  ELSE IF Head(s) = c THEN Remove(Tail(s), c)
  ELSE <<Head(s)>> \o Remove(Tail(s), c)

\* --------------------------------------------------------------- parse_time
\* The failure value of a parse (the ValueError of the code).
ParseError == -1

\* A strptime number directive at position p of s: two digits when the two
\* digit alternative of the directive matches, else one digit.
TwoDigitOk(kind, a, b) ==
  CASE kind = "H" -> a \in {0, 1} \/ (a = 2 /\ b <= 3)
    [] kind = "M" -> a <= 5
    [] kind = "S" -> a <= 5 \/ (a = 6 /\ b <= 1)
    [] kind = "I" -> (a = 1 /\ b <= 2) \/ (a = 0 /\ b >= 1)

OneDigitOk(kind, a) == IF kind = "I" THEN a >= 1 ELSE TRUE

NumField(s, p, kind) ==
  IF p + 1 <= Len(s) /\ IsDigit(s[p]) /\ IsDigit(s[p + 1])
     /\ TwoDigitOk(kind, DigitVal(s[p]), DigitVal(s[p + 1]))
  THEN [ok |-> TRUE, val |-> 10 * DigitVal(s[p]) + DigitVal(s[p + 1]), next |-> p + 2]
  ELSE IF p <= Len(s) /\ IsDigit(s[p]) /\ OneDigitOk(kind, DigitVal(s[p]))
  THEN [ok |-> TRUE, val |-> DigitVal(s[p]), next |-> p + 1]
  ELSE [ok |-> FALSE, val |-> 0, next |-> p]

Literal(s, p, c) == p <= Len(s) /\ s[p] = c

\* One or more blanks from p on (a blank of the format is the pattern \s+).
RECURSIVE SkipBlanks(_, _)
SkipBlanks(s, p) == IF Literal(s, p, " ") THEN SkipBlanks(s, p + 1) ELSE p

\* The %p directive: AM or PM at p.
AmPm(s, p) ==
  IF p + 1 <= Len(s) /\ s[p] \in {"A", "P"} /\ s[p + 1] = "M"
  THEN [ok |-> TRUE, pm |-> s[p] = "P", next |-> p + 2]
  ELSE [ok |-> FALSE, pm |-> FALSE, next |-> p]

Hour12(i, pm) == IF pm THEN (IF i = 12 THEN 12 ELSE i + 12) ELSE (IF i = 12 THEN 0 ELSE i)

\* strptime(s, "%H:%M")
ParseHM(s) ==
  LET h == NumField(s, 1, "H")
      m == NumField(s, h.next + 1, "M")
  IN IF h.ok /\ Literal(s, h.next, ":") /\ m.ok /\ m.next = Len(s) + 1
     THEN h.val * 3600 + m.val * 60
     ELSE ParseError

\* strptime(s, "%I:%M %p") when blank, strptime(s, "%I:%M%p") when not
ParseIMp(s, blank) ==
  LET h == NumField(s, 1, "I")
      m == NumField(s, h.next + 1, "M")
      q == IF blank THEN SkipBlanks(s, m.next) ELSE m.next
      a == AmPm(s, q)
  IN IF h.ok /\ Literal(s, h.next, ":") /\ m.ok /\ (blank => q > m.next)
        /\ a.ok /\ a.next = Len(s) + 1
     THEN Hour12(h.val, a.pm) * 3600 + m.val * 60
     ELSE ParseError

\* strptime(s, "%H:%M:%S")
ParseHMS(s) ==
  LET h == NumField(s, 1, "H")
      m == NumField(s, h.next + 1, "M")
      x == NumField(s, m.next + 1, "S")
  IN IF h.ok /\ Literal(s, h.next, ":") /\ m.ok /\ Literal(s, m.next, ":")
        /\ x.ok /\ x.next = Len(s) + 1
     THEN h.val * 3600 + m.val * 60 + x.val
     ELSE ParseError

\* parse_time: the first of the four formats that parses, as seconds of the
\* day (the datetime of 1900-01-01 the code compares), or ParseError.
parse_time(time_str) ==
  LET s == UpperAll(Strip(time_str))
  IN IF ParseHM(s) # ParseError THEN ParseHM(s)
     ELSE IF ParseIMp(s, TRUE) # ParseError THEN ParseIMp(s, TRUE)
     ELSE IF ParseIMp(s, FALSE) # ParseError THEN ParseIMp(s, FALSE)
     ELSE ParseHMS(s)

\* -------------------------------------------------------------- price text
\* float() on a decimal text with at most two digits after the point, in
\* cents; ParseError for a text float() rejects.
RECURSIVE DigitsVal(_, _)
DigitsVal(s, acc) ==
  IF s = <<>> THEN acc ELSE DigitsVal(Tail(s), 10 * acc + DigitVal(Head(s)))

AllDigits(s) == \A i \in 1..Len(s) : IsDigit(s[i])

PointAt(s) == IF \E i \in 1..Len(s) : s[i] = "." THEN CHOOSE i \in 1..Len(s) : s[i] = "." /\ \A j \in 1..(i - 1) : s[j] # "." ELSE 0

ParseFloat(s) ==
  LET p == PointAt(s)
      whole == IF p = 0 THEN s ELSE SubSeq(s, 1, p - 1)
      frac == IF p = 0 THEN <<>> ELSE SubSeq(s, p + 1, Len(s))
  IN IF AllDigits(whole) /\ AllDigits(frac) /\ Len(whole) + Len(frac) > 0 /\ Len(frac) <= 2
     THEN DigitsVal(whole, 0) * 100
          + (IF Len(frac) = 1 THEN 10 * DigitsVal(frac, 0) ELSE DigitsVal(frac, 0))
     ELSE ParseError

\* price_elem.text.replace('$', '').replace(',', '').strip(), then float()
ParsePrice(text) == ParseFloat(Strip(Remove(Remove(text, "$"), ",")))

\* ------------------------------------------------------- get_working_days
\* Days are numbered from a Monday: weekday() of day d is d % 7.
Weekday(day) == day % 7

Today(t) == t \div SECONDS_PER_DAY

\* The loop with <= 5 for < 5: Saturday counts as a working day.
RECURSIVE WorkingDaysFrom_WithSaturday(_, _, _)
WorkingDaysFrom_WithSaturday(current_date, num_days, working_days) ==
  IF Len(working_days) >= num_days THEN working_days
  ELSE IF Weekday(current_date + 1) <= 5
  THEN WorkingDaysFrom_WithSaturday(current_date + 1, num_days,
                                    Append(working_days, current_date + 1))
  ELSE WorkingDaysFrom_WithSaturday(current_date + 1, num_days, working_days)

\* get_working_days: the while loop.
RECURSIVE WorkingDaysFrom(_, _, _)
WorkingDaysFrom(current_date, num_days, working_days) ==
  IF Len(working_days) >= num_days THEN working_days
  ELSE IF Weekday(current_date + 1) < 5
  THEN WorkingDaysFrom(current_date + 1, num_days, Append(working_days, current_date + 1))
  ELSE WorkingDaysFrom(current_date + 1, num_days, working_days)

get_working_days(t, num_days) == WorkingDaysFrom(Today(t), num_days, <<>>)

\* ------------------------------------------------------ the results page
\* One train-result element of the page.  fault names the exception a lookup
\* made for the element raises (its own fields, or the travel-date field of
\* the page): NoSuchElementException, or any other one.
Element(train_number, departure_time, price, fault) ==
  [train_number |-> train_number, departure_time |-> departure_time,
   arrival_time |-> "09:05", duration |-> "50m", price |-> price, fault |-> fault]

CheapMorning ==
  Element("123", <<"0", "8", ":", "1", "5">>, <<"$", "1", "9", ".", "9", "9">>, "none")

AtThresholdMorning ==
  Element("123", <<"8", ":", "3", "0", " ", "a", "m">>, <<"$", "2", "0", ".", "0", "0">>, "none")

CheapAfternoon ==
  Element("123", <<"2", ":", "0", "0", "P", "M">>, <<"$", "1", "9", ".", "9", "9">>, "none")

BadPrice == Element("123", <<"0", "8", ":", "1", "5">>, <<"N", "/", "A">>, "none")

BadTime == Element("123", <<"T", "B", "D">>, <<"$", "1", "9", ".", "9", "9">>, "none")

NoPrice ==
  Element("123", <<"0", "8", ":", "1", "5">>, <<"$", "1", "9", ".", "9", "9">>, "NoSuchElement")

Stale ==
  Element("123", <<"0", "8", ":", "1", "5">>, <<"$", "1", "9", ".", "9", "9">>, "Other")

\* The train of CheapMorning at a lower fare, and another train at its fare.
CheaperMorning ==
  Element("123", <<"0", "8", ":", "1", "5">>, <<"$", "1", "8", ".", "5", "0">>, "none")

OtherTrain ==
  Element("456", <<"0", "8", ":", "1", "5">>, <<"$", "1", "9", ".", "9", "9">>, "none")

Elements ==
  {CheapMorning, AtThresholdMorning, CheapAfternoon, BadPrice, BadTime, NoPrice, Stale}

RECURSIVE SeqsUpTo(_, _)
SeqsUpTo(S, n) ==
  IF n = 0 THEN {<<>>}
  ELSE LET shorter == SeqsUpTo(S, n - 1)
       IN shorter \cup {Append(q, e) : q \in {r \in shorter : Len(r) = n - 1}, e \in S}

\* The pages a search may end on: every list of elements, the pages of a
\* site that lists one train, and those of a site with one fare.
Pages == SeqsUpTo(Elements, MaxBatch)

OneTrainPages == {<<>>, <<CheapMorning>>, <<AtThresholdMorning>>}

LoopPages == {<<>>, <<CheapMorning>>}

\* The pages of a site on which a train shows twice, or beside another train.
KeyPages ==
  {<<>>, <<CheapMorning>>, <<CheapMorning, CheaperMorning>>,
   <<CheapMorning, OtherTrain>>, <<CheapAfternoon>>}

\* What the fare source does in one search: the driver fails to start, a wait
\* times out, another error is raised while navigating, the results page
\* shows no train-result element, or it shows some.
SourceOutcomes == {"driver_fail", "timeout", "error", "no_results", "results"}

\* ParsePrice and parse_time on the texts of the model, computed once.
PriceOf ==
  [text \in {e.price : e \in Elements \cup {CheaperMorning, OtherTrain}}
     |-> ParsePrice(text)]

\* The texts a time window is given by: the four of the program, and 08:15.
WindowTexts ==
  {MORNING_START, <<"0", "8", ":", "1", "5">>, MORNING_END, AFTERNOON_START,
   AFTERNOON_END}

TimeOf ==
  [text \in {e.departure_time : e \in Elements} \cup WindowTexts |-> parse_time(text)]

\* The loop with its try around the whole loop: a bad element ends it.
RECURSIVE ExtractLoopAborting(_, _, _)
ExtractLoopAborting(train_elements, travel_date, trains) ==
  IF train_elements = <<>> THEN trains
  ELSE LET e == Head(train_elements)
       IN IF e.fault # "none" \/ PriceOf[e.price] = ParseError THEN trains
          ELSE ExtractLoopAborting(Tail(train_elements), travel_date,
                 Append(trains,
                   [train_number |-> e.train_number,
                    departure_time |-> e.departure_time,
                    arrival_time |-> e.arrival_time,
                    duration |-> e.duration,
                    price |-> PriceOf[e.price],
                    travel_date |-> travel_date]))

\* extract_train_data: the loop over the train-result elements.  The print of
\* line 223, whose f-string has an empty expression, is left out: the model is
\* of the program without that line.
RECURSIVE ExtractLoop(_, _, _)
ExtractLoop(train_elements, travel_date, trains) ==
  IF train_elements = <<>> THEN trains
  ELSE LET e == Head(train_elements)
       IN IF e.fault = "Other" THEN trains
          ELSE IF e.fault = "NoSuchElement" \/ PriceOf[e.price] = ParseError
          THEN ExtractLoop(Tail(train_elements), travel_date, trains)
          ELSE ExtractLoop(Tail(train_elements), travel_date,
                 Append(trains,
                   [train_number |-> e.train_number,
                    departure_time |-> e.departure_time,
                    arrival_time |-> e.arrival_time,
                    duration |-> e.duration,
                    price |-> PriceOf[e.price],
                    travel_date |-> travel_date]))

extract_train_data(outcome, train_elements, travel_date) ==
  IF outcome = "results" THEN ExtractLoop(train_elements, travel_date, <<>>) ELSE <<>>

\* search_trains once the driver is there: the list it returns.
search_trains(outcome, train_elements, travel_date) ==
  IF outcome \in {"timeout", "error"} THEN <<>>
  ELSE extract_train_data(outcome, train_elements, travel_date)

\* The test with both ends of the window left out.
InTimeWindowExclusive(train, start_time, end_time) ==
  /\ TimeOf[train.departure_time] # ParseError
  /\ TimeOf[start_time] < TimeOf[train.departure_time]
  /\ TimeOf[train.departure_time] < TimeOf[end_time]

\* The test with the end of the window left out.
InTimeWindowHalfOpen(train, start_time, end_time) ==
  /\ TimeOf[train.departure_time] # ParseError
  /\ TimeOf[start_time] <= TimeOf[train.departure_time]
  /\ TimeOf[train.departure_time] < TimeOf[end_time]

\* The test filter_by_time_window makes on one train.
InTimeWindow(train, start_time, end_time) ==
  LET dep_time_obj == TimeOf[train.departure_time]
      start_time_obj == TimeOf[start_time]
      end_time_obj == TimeOf[end_time]
  IN /\ dep_time_obj # ParseError
     /\ start_time_obj # ParseError
     /\ end_time_obj # ParseError
     /\ start_time_obj <= dep_time_obj
     /\ dep_time_obj <= end_time_obj

filter_by_time_window(trains, start_time, end_time) ==
  SelectSeq(trains, LAMBDA train : InTimeWindow(train, start_time, end_time))

\* ------------------------------------------------------------- the tables
HistoryRow(id, t, train, origin, destination, route_type) ==
  [id |-> id, check_timestamp |-> t, travel_date |-> train.travel_date,
   origin |-> origin, destination |-> destination,
   departure_time |-> train.departure_time, arrival_time |-> train.arrival_time,
   train_number |-> train.train_number, duration |-> train.duration,
   price |-> train.price, route_type |-> route_type]

\* The INSERT as INSERT OR REPLACE on the travel date, route and train: one
\* row for each, the latest.
save_price_data_Replace(table, t, train, origin, destination, route_type) ==
  IF \E i \in 1..Len(table) :
       /\ table[i].travel_date = train.travel_date
       /\ table[i].route_type = route_type
       /\ table[i].train_number = train.train_number
  THEN LET i == CHOOSE i \in 1..Len(table) :
                  /\ table[i].travel_date = train.travel_date
                  /\ table[i].route_type = route_type
                  /\ table[i].train_number = train.train_number
       IN [table EXCEPT ![i] = HistoryRow(i, t, train, origin, destination, route_type)]
  ELSE Append(table, HistoryRow(Len(table) + 1, t, train, origin, destination, route_type))

\* save_price_data: the INSERT INTO price_history and its commit.
save_price_data(table, t, train, origin, destination, route_type) ==
  Append(table, HistoryRow(Len(table) + 1, t, train, origin, destination, route_type))

\* The SELECT without its condition on route_type.
check_if_notified_NoRoute(table, t, train, route_type) ==
  \E i \in 1..Len(table) :
    /\ table[i].travel_date = train.travel_date
    /\ table[i].train_number = train.train_number
    /\ table[i].sent_timestamp > t - DEDUP_SECONDS

\* The SELECT with its comparison turned round: rows older than 24 hours.
check_if_notified_Older(table, t, train, route_type) ==
  \E i \in 1..Len(table) :
    /\ table[i].travel_date = train.travel_date
    /\ table[i].route_type = route_type
    /\ table[i].train_number = train.train_number
    /\ table[i].sent_timestamp < t - DEDUP_SECONDS

\* The SELECT without its condition on sent_timestamp.
check_if_notified_Ever(table, t, train, route_type) ==
  \E i \in 1..Len(table) :
    /\ table[i].travel_date = train.travel_date
    /\ table[i].route_type = route_type
    /\ table[i].train_number = train.train_number

\* check_if_notified: the SELECT over notifications.
check_if_notified(table, t, train, route_type) ==
  \E i \in 1..Len(table) :
    /\ table[i].travel_date = train.travel_date
    /\ table[i].route_type = route_type
    /\ table[i].train_number = train.train_number
    /\ table[i].sent_timestamp > t - DEDUP_SECONDS

\* The text of the alert, as the fields it is formatted from.
AlertMessage(train, origin, destination, route_type) ==
  <<route_type, origin, destination, train.travel_date, train.train_number,
    train.departure_time, train.price>>

\* send_sms_alert: the INSERT INTO notifications and its commit.
InsertNotification(table, t, train, route_type, message) ==
  Append(table,
    [id |-> Len(table) + 1, sent_timestamp |-> t, travel_date |-> train.travel_date,
     route_type |-> route_type, train_number |-> train.train_number,
     price |-> train.price, message |-> message])

\* The alert test with <= for <.
AtOrBelowThreshold(train) == train.price <= PRICE_THRESHOLD

\* The alert test of check_route on the price.
BelowThreshold(train) == train.price < PRICE_THRESHOLD

\* check_route calls send_sms_alert for this train.
AlertCalled(table, t, train, route_type) ==
  BelowThreshold(train) /\ ~check_if_notified(table, t, train, route_type)

\* send_sms_alert with the INSERT before the Twilio call.
send_sms_alert_InsertFirst(table, t, train, route_type, message, client, deliver_ok, insert_ok) ==
  [delivered |-> client /\ insert_ok /\ deliver_ok,
   table |-> IF client /\ insert_ok
             THEN Append(table,
                    [id |-> Len(table) + 1, sent_timestamp |-> t,
                     travel_date |-> train.travel_date, route_type |-> route_type,
                     train_number |-> train.train_number, price |-> train.price,
                     message |-> message])
             ELSE table]

\* send_sms_alert: whether the message was delivered, and the notifications
\* table it leaves.  An exception of the Twilio call or of the INSERT ends in
\* the except clause, which logs it.
send_sms_alert(table, t, train, route_type, message, client, deliver_ok, insert_ok) ==
  [delivered |-> client /\ deliver_ok,
   table |-> IF client /\ deliver_ok /\ insert_ok
             THEN InsertNotification(table, t, train, route_type, message)
             ELSE table]

\* ------------------------------------------------------------------ state
VARIABLES
  now,             \* the clock, in seconds
  pc,              \* where the process is: "idle" when it is not running
  mode,            \* "single" (one cycle) or "monitor" (--monitor)
  driver,          \* self.driver is set
  twilio_client,   \* self.twilio_client is set
  working_days,    \* the dates of the running cycle
  di, ri,          \* the date and the route spec of the current check
  filtered,        \* filtered_trains of the running check_route
  idx,             \* the position of its for loop
  price_history,   \* the price_history table
  notifications,   \* the notifications table
  cycles,          \* monitoring cycles started so far
  decisions,       \* history: what became of each record that got to the alert test
  call,            \* history: the check_route call that runs or has just ended
  checks,          \* history: the check_route calls of the running cycle, in order
  applied          \* the function a harness specification applies: arguments, result

vars ==
  <<now, pc, mode, driver, twilio_client, working_days, di, ri, filtered, idx,
    price_history, notifications, cycles, decisions, call, checks, applied>>

\* The times a stopped process stays stopped before it is launched again.
Gaps == {3600, 86376, 90000}

\* The day the first launch happens on (3: a Thursday), at midnight.
StartDays == {3}

\* The travel days the site lists trains for (7: the Monday after).
ServedDays == {7}

\* The same with the Tuesday after.
KeyDays == {7, 8}

\* No function is applied.
NoApplication == [fn |-> "none"]

NoCall ==
  [source |-> "none", raw |-> <<>>, histStart |-> 0, notifStart |-> 0,
   returned |-> <<>>, error |-> "none"]

\* The database is new and no process runs.  twilio_client stands for the
\* Twilio settings of the environment until the first launch reads them.
Init ==
  /\ now \in {d * SECONDS_PER_DAY : d \in StartDays}
  /\ pc = "idle"
  /\ mode = "single"
  /\ driver = FALSE
  /\ twilio_client \in BOOLEAN
  /\ working_days = <<>>
  /\ di = 1
  /\ ri = 1
  /\ filtered = <<>>
  /\ idx = 1
  /\ price_history = <<>>
  /\ notifications = <<>>
  /\ cycles = 0
  /\ decisions = <<>>
  /\ call = NoCall
  /\ checks = <<>>
  /\ applied = NoApplication

\* ----------------------------------------------------------------- actions
\* __main__ and __init__: a new process, a new monitor object, started one
\* of gaps seconds after the process before it ended.
LaunchAfter(limit, gaps) ==
  /\ pc = "idle"
  /\ cycles < limit
  /\ \E m \in {"single", "monitor"}, gap \in (IF cycles = 0 THEN {0} ELSE gaps) :
       /\ mode' = m
       /\ now' = now + gap
  /\ driver' = FALSE
  /\ pc' = "cycle_start"
  /\ UNCHANGED <<twilio_client, working_days, di, ri, filtered, idx, price_history,
                 notifications, cycles, decisions, call, checks, applied>>

Launch(limit) == LaunchAfter(limit, Gaps)

\* run_monitoring_cycle up to its first check.
StartCycle ==
  /\ pc = "cycle_start"
  /\ working_days' = get_working_days(now, NUM_DAYS)
  /\ di' = 1
  /\ ri' = 1
  /\ cycles' = cycles + 1
  /\ pc' = "check"
  /\ checks' = <<>>
  /\ UNCHANGED <<now, mode, driver, twilio_client, filtered, idx, price_history,
                 notifications, decisions, call, applied>>

\* check_route up to its loop: search_trains and filter_by_time_window, on a
\* site that lists trains for the travel days of served.
SearchAndFilterOn(pages, served) ==
  /\ pc = "check"
  /\ \E outcome \in SourceOutcomes, page \in pages :
       LET spec == RouteSpecs[ri]
           travel_date == working_days[di]
           trains == search_trains(outcome, page, travel_date)
           kept == filter_by_time_window(trains, spec.time_start, spec.time_end)
       IN /\ outcome = "driver_fail" => ~driver
          /\ outcome = "results" <=> page # <<>>
          /\ outcome = "results" => travel_date \in served
          /\ Len(price_history) + Len(kept) <= MaxHist
          /\ call' = [source |-> outcome, raw |-> page,
                      histStart |-> Len(price_history),
                      notifStart |-> Len(notifications), returned |-> <<>>,
                      error |-> IF outcome = "driver_fail"
                                THEN "WebDriverException" ELSE "none"]
          /\ checks' = Append(checks,
                         [travel_date |-> travel_date, route_type |-> spec.route_type,
                          at |-> now,
                          returned |-> outcome # "driver_fail" /\ kept = <<>>])
          /\ driver' = (outcome # "driver_fail")
          /\ filtered' = IF outcome = "driver_fail" THEN <<>> ELSE kept
          /\ pc' = IF outcome = "driver_fail" THEN "raised"
                   ELSE IF kept = <<>> THEN "returned"
                   ELSE "record"
  /\ idx' = 1
  /\ UNCHANGED <<now, mode, twilio_client, working_days, di, ri, price_history,
                 notifications, cycles, decisions, applied>>

SearchAndFilter(pages) == SearchAndFilterOn(pages, ServedDays)

\* The turn of the loop with the alert before save_price_data: a failed
\* INSERT into price_history comes after the alert has gone out.
ProcessRecord_AlertFirst ==
  /\ pc = "record"
  /\ \E save_ok, query_ok, deliver_ok, insert_ok \in BOOLEAN :
       LET spec == RouteSpecs[ri]
           train == filtered[idx]
           queried == BelowThreshold(train) /\ query_ok
           raised == ~save_ok \/ (BelowThreshold(train) /\ ~query_ok)
           called == AlertCalled(notifications, now, train, spec.route_type)
           message == AlertMessage(train, STATIONS[spec.origin],
                                   STATIONS[spec.destination], spec.route_type)
           sms == send_sms_alert(notifications, now, train, spec.route_type, message,
                                 twilio_client, deliver_ok, insert_ok)
       IN /\ notifications' = IF queried /\ called THEN sms.table ELSE notifications
          /\ price_history' =
               IF save_ok /\ (BelowThreshold(train) => query_ok)
               THEN save_price_data(price_history, now, train, spec.origin,
                                    spec.destination, spec.route_type)
               ELSE price_history
          /\ decisions' =
               IF queried
               THEN Append(decisions,
                      [travel_date |-> train.travel_date, route_type |-> spec.route_type,
                       train_number |-> train.train_number, price |-> train.price,
                       at |-> now, seen |-> Len(notifications), attempted |-> called,
                       delivered |-> called /\ sms.delivered,
                       recorded |-> called /\ sms.table # notifications])
               ELSE decisions
          /\ IF raised
             THEN /\ pc' = "raised" /\ idx' = 1 /\ filtered' = <<>>
                  /\ call' = [call EXCEPT !.error = "StorageError"]
                  /\ checks' = checks
             ELSE IF idx < Len(filtered)
             THEN /\ pc' = pc /\ idx' = idx + 1 /\ filtered' = filtered /\ call' = call
                  /\ checks' = checks
             ELSE /\ pc' = "returned" /\ idx' = 1 /\ filtered' = <<>>
                  /\ call' = [call EXCEPT !.returned = filtered]
                  /\ checks' = [checks EXCEPT ![Len(checks)].returned = TRUE]
  /\ UNCHANGED <<now, mode, driver, twilio_client, working_days, di, ri, cycles,
                 applied>>

\* One turn of the loop of check_route: save_price_data, the alert test,
\* check_if_notified and send_sms_alert.  The four inputs say whether the
\* INSERT into price_history, the SELECT, the Twilio call and the INSERT into
\* notifications succeed.
ProcessRecord ==
  /\ pc = "record"
  /\ \E save_ok, query_ok, deliver_ok, insert_ok \in BOOLEAN :
       LET spec == RouteSpecs[ri]
           train == filtered[idx]
           raised == ~save_ok \/ (BelowThreshold(train) /\ ~query_ok)
           called == AlertCalled(notifications, now, train, spec.route_type)
           message == AlertMessage(train, STATIONS[spec.origin],
                                   STATIONS[spec.destination], spec.route_type)
           sms == send_sms_alert(notifications, now, train, spec.route_type, message,
                                 twilio_client, deliver_ok, insert_ok)
       IN /\ price_history' =
               IF save_ok
               THEN save_price_data(price_history, now, train, spec.origin,
                                    spec.destination, spec.route_type)
               ELSE price_history
          /\ notifications' = IF ~raised /\ called THEN sms.table ELSE notifications
          /\ decisions' =
               IF ~raised /\ BelowThreshold(train)
               THEN Append(decisions,
                      [travel_date |-> train.travel_date, route_type |-> spec.route_type,
                       train_number |-> train.train_number, price |-> train.price,
                       at |-> now, seen |-> Len(notifications), attempted |-> called,
                       delivered |-> called /\ sms.delivered,
                       recorded |-> called /\ sms.table # notifications])
               ELSE decisions
          /\ IF raised
             THEN /\ pc' = "raised" /\ idx' = 1 /\ filtered' = <<>>
                  /\ call' = [call EXCEPT !.error = "StorageError"]
                  /\ checks' = checks
             ELSE IF idx < Len(filtered)
             THEN /\ pc' = pc /\ idx' = idx + 1 /\ filtered' = filtered /\ call' = call
                  /\ checks' = checks
             ELSE /\ pc' = "returned" /\ idx' = 1 /\ filtered' = <<>>
                  /\ call' = [call EXCEPT !.returned = filtered]
                  /\ checks' = [checks EXCEPT ![Len(checks)].returned = TRUE]
  /\ UNCHANGED <<now, mode, driver, twilio_client, working_days, di, ri, cycles,
                 applied>>

\* run_monitoring_cycle between two checks of one date: time.sleep(3).
Pace ==
  /\ pc = "returned"
  /\ ri < Len(RouteSpecs)
  /\ now' = now + PACING_SECONDS
  /\ ri' = ri + 1
  /\ pc' = "check"
  /\ call' = NoCall
  /\ UNCHANGED <<mode, driver, twilio_client, working_days, di, filtered, idx,
                 price_history, notifications, cycles, decisions, checks, applied>>

\* run_monitoring_cycle from the last check of a date to the next date.
NextDate ==
  /\ pc = "returned"
  /\ ri = Len(RouteSpecs)
  /\ di < Len(working_days)
  /\ di' = di + 1
  /\ ri' = 1
  /\ pc' = "check"
  /\ call' = NoCall
  /\ UNCHANGED <<now, mode, driver, twilio_client, working_days, filtered, idx,
                 price_history, notifications, cycles, decisions, checks, applied>>

\* The cycle is complete.  run_continuously closes the driver and sleeps;
\* after a single cycle the script is at its end.
CycleComplete ==
  /\ pc = "returned"
  /\ ri = Len(RouteSpecs)
  /\ di = Len(working_days)
  /\ IF mode = "monitor"
     THEN pc' = "sleep" /\ driver' = FALSE
     ELSE pc' = "done" /\ driver' = driver
  /\ working_days' = <<>>
  /\ di' = 1
  /\ ri' = 1
  /\ call' = NoCall
  /\ UNCHANGED <<now, mode, twilio_client, filtered, idx, price_history,
                 notifications, cycles, decisions, checks, applied>>

\* The handler of the loop breaks out of it on any exception.
CycleFails_Breaks ==
  /\ pc = "raised"
  /\ pc' = "died"
  /\ working_days' = <<>>
  /\ di' = 1
  /\ ri' = 1
  /\ call' = NoCall
  /\ checks' = <<>>
  /\ UNCHANGED <<now, mode, driver, twilio_client, filtered, idx, price_history,
                 notifications, cycles, decisions, applied>>

\* An exception has left check_route and run_monitoring_cycle.
\* run_continuously logs it and closes the driver; a single cycle dies of it.
CycleFails ==
  /\ pc = "raised"
  /\ IF mode = "monitor"
     THEN pc' = "backoff" /\ driver' = FALSE
     ELSE pc' = "died" /\ driver' = driver
  /\ working_days' = <<>>
  /\ di' = 1
  /\ ri' = 1
  /\ call' = NoCall
  /\ checks' = <<>>
  /\ UNCHANGED <<now, mode, twilio_client, filtered, idx, price_history,
                 notifications, cycles, decisions, applied>>

\* run_continuously: the sleep after a complete cycle, then the next cycle.
IntervalSleep ==
  /\ pc = "sleep"
  /\ cycles < MaxCycles
  /\ now' = now + CHECK_INTERVAL_MINUTES * 60
  /\ pc' = "cycle_start"
  /\ checks' = <<>>
  /\ UNCHANGED <<mode, driver, twilio_client, working_days, di, ri, filtered, idx,
                 price_history, notifications, cycles, decisions, call, applied>>

\* run_continuously: the sleep after a failed cycle, then the next cycle.
Backoff ==
  /\ pc = "backoff"
  /\ cycles < MaxCycles
  /\ now' = now + BACKOFF_SECONDS
  /\ pc' = "cycle_start"
  /\ UNCHANGED <<mode, driver, twilio_client, working_days, di, ri, filtered, idx,
                 price_history, notifications, cycles, decisions, call, checks,
                 applied>>

\* Where a process that runs may be.
Running == {"cycle_start", "check", "record", "returned", "raised", "sleep", "backoff"}

\* Where the try block of run_continuously is in control.
InTry == {"cycle_start", "check", "record", "returned", "sleep"}

\* The operator interrupts the process: KeyboardInterrupt, which no except
\* clause of the checks catches.  Inside the try block of run_continuously
\* the loop logs it and breaks ("stopped"); in a handler of the loop, or in a
\* single cycle, it ends the process ("killed").  A cycle interrupted at its
\* first line counts as started.
Interrupt ==
  /\ pc \in Running
  /\ pc' = IF mode = "monitor" /\ pc \in InTry THEN "stopped" ELSE "killed"
  /\ cycles' = IF pc = "cycle_start" THEN cycles + 1 ELSE cycles
  /\ working_days' = <<>>
  /\ di' = 1
  /\ ri' = 1
  /\ filtered' = <<>>
  /\ idx' = 1
  /\ call' = NoCall
  /\ checks' = <<>>
  /\ UNCHANGED <<now, mode, driver, twilio_client, price_history, notifications,
                 decisions, applied>>

\* The script is at its end and the interpreter shuts down.  __del__ closes
\* the driver when the interpreter calls it, which it need not do for an
\* object that still exists at exit.
Exit ==
  /\ pc \in {"done", "died", "stopped", "killed"}
  /\ \E finalized \in BOOLEAN : driver' = (driver /\ ~finalized)
  /\ pc' = "idle"
  /\ checks' = <<>>
  /\ UNCHANGED <<now, mode, twilio_client, working_days, di, ri, filtered, idx,
                 price_history, notifications, cycles, decisions, call, applied>>

\* ------------------------------------------------- the functions on their own
\* The clocks a function is applied at: two weeks of days, at midnight and at
\* the last second of the day.
Clocks == {d * SECONDS_PER_DAY + s : d \in 0..13, s \in {0, SECONDS_PER_DAY - 1}}

\* A new monitor object at one of the clocks; nothing runs.
InitPure ==
  /\ now \in Clocks
  /\ pc = "idle"
  /\ mode = "single"
  /\ driver = FALSE
  /\ twilio_client = FALSE
  /\ working_days = <<>>
  /\ di = 1
  /\ ri = 1
  /\ filtered = <<>>
  /\ idx = 1
  /\ price_history = <<>>
  /\ notifications = <<>>
  /\ cycles = 0
  /\ decisions = <<>>
  /\ call = NoCall
  /\ checks = <<>>
  /\ applied = NoApplication

\* get_working_days(num_days) is called.
ApplyGetWorkingDays ==
  /\ \E num_days \in 0..MaxDays :
       applied' = [fn |-> "get_working_days", num_days |-> num_days,
                   result |-> get_working_days(now, num_days)]
  /\ UNCHANGED <<now, pc, mode, driver, twilio_client, working_days, di, ri, filtered,
                 idx, price_history, notifications, cycles, decisions, call, checks>>

\* filter_by_time_window(trains, start_time, end_time) is called on the trains
\* of a page, after any calls of get_working_days.
ApplyFilterByTimeWindow ==
  /\ applied.fn # "filter_by_time_window"
  /\ \E page \in Pages, start_time \in WindowTexts, end_time \in WindowTexts :
       LET trains == ExtractLoop(page, 7, <<>>)
       IN applied' = [fn |-> "filter_by_time_window", trains |-> trains,
                      start_time |-> start_time, end_time |-> end_time,
                      result |-> filter_by_time_window(trains, start_time, end_time)]
  /\ UNCHANGED <<now, pc, mode, driver, twilio_client, working_days, di, ri, filtered,
                 idx, price_history, notifications, cycles, decisions, call, checks>>

NextPure ==
  \/ ApplyGetWorkingDays
  \/ ApplyFilterByTimeWindow

SpecPure == InitPure /\ [][NextPure]_vars

\* The monitor against a site that lists one train, over several cycles.
Next ==
  \/ Launch(MaxCycles)
  \/ StartCycle
  \/ SearchAndFilter(OneTrainPages)
  \/ ProcessRecord
  \/ Pace
  \/ NextDate
  \/ CycleComplete
  \/ CycleFails
  \/ IntervalSleep
  \/ Backoff
  \/ Exit

Spec == Init /\ [][Next]_vars

\* One monitoring cycle against every page.
NextPage ==
  \/ Launch(1)
  \/ StartCycle
  \/ SearchAndFilter(Pages)
  \/ ProcessRecord
  \/ Pace
  \/ NextDate
  \/ CycleComplete
  \/ CycleFails
  \/ Exit

SpecPage == Init /\ [][NextPage]_vars

\* One monitoring cycle against a site that lists a train twice or two
\* trains, on two travel days.
NextKey ==
  \/ Launch(1)
  \/ StartCycle
  \/ SearchAndFilterOn(KeyPages, KeyDays)
  \/ ProcessRecord
  \/ Pace
  \/ NextDate
  \/ CycleComplete
  \/ CycleFails
  \/ Exit

SpecKey == Init /\ [][NextKey]_vars

\* The monitor with an operator who may interrupt it at any point.
NextLoop ==
  \/ LaunchAfter(MaxCycles, {3600})
  \/ StartCycle
  \/ SearchAndFilter(LoopPages)
  \/ ProcessRecord
  \/ Pace
  \/ NextDate
  \/ CycleComplete
  \/ CycleFails
  \/ IntervalSleep
  \/ Backoff
  \/ Interrupt
  \/ Exit

\* A handler that is entered runs to its end, and a sleep returns.
SpecLoop ==
  Init /\ [][NextLoop]_vars /\ WF_vars(CycleFails) /\ WF_vars(Backoff)

\* ================================================================= claims
Key(x) == <<x.travel_date, x.route_type, x.train_number>>

\* The notification rows of key k sent in the 24 hours up to time t.
Covering(k, t) ==
  {n \in DOMAIN notifications :
     /\ Key(notifications[n]) = k
     /\ notifications[n].sent_timestamp > t - 86400
     /\ notifications[n].sent_timestamp <= t}

\* Every alert for key k among the first j decisions was delivered and recorded.
AllRecorded(k, j) ==
  \A m \in 1..j :
    (Key(decisions[m]) = k /\ decisions[m].attempted) => decisions[m].recorded

C2_AtMostOnePer24h ==
  \A i, j \in DOMAIN decisions :
    (i < j /\ Key(decisions[i]) = Key(decisions[j])
     /\ decisions[i].delivered /\ decisions[j].delivered)
    => decisions[j].at - decisions[i].at >= 86400

\* The last decision for key k, among the decisions made so far, was an alert
\* that was not delivered.
PreviousFailed(k) ==
  \E m \in DOMAIN decisions :
    /\ Key(decisions[m]) = k
    /\ decisions[m].attempted
    /\ ~decisions[m].delivered
    /\ \A m2 \in DOMAIN decisions : m2 > m => Key(decisions[m2]) # k

NewDecision == Len(decisions') = Len(decisions) + 1

LastDecision == decisions'[Len(decisions')]

\* C3: a step adds a notification row only for an alert it has delivered, an
\* alert that is not delivered adds no row, and the next observation of the
\* key below the threshold after an undelivered alert calls for an alert.
C3_NoSpeculativeRecord ==
  [][ /\ (notifications' # notifications)
         => /\ NewDecision
            /\ LastDecision.delivered
            /\ Len(notifications') = Len(notifications) + 1
            /\ SubSeq(notifications', 1, Len(notifications)) = notifications
            /\ Key(notifications'[Len(notifications')]) = Key(LastDecision)
            /\ notifications'[Len(notifications')].sent_timestamp = LastDecision.at
      /\ (NewDecision /\ LastDecision.attempted /\ ~LastDecision.delivered)
         => notifications' = notifications
      /\ (NewDecision /\ PreviousFailed(Key(LastDecision)))
         => LastDecision.attempted ]_vars

\* An alert failed, and the next observation of the key called for an alert.
C3_Witness ==
  /\ Len(decisions) = 2
  /\ Key(decisions[1]) = Key(decisions[2])
  /\ decisions[1].attempted /\ ~decisions[1].delivered
  /\ decisions[2].attempted /\ decisions[2].delivered
  /\ Len(notifications) = 1
  /\ notifications[1].sent_timestamp = decisions[2].at

\* C4: outside the loop of a check, the notifications table has one row for
\* each delivery.
C4_OneRowPerDelivery ==
  pc # "record"
  => Len(notifications) = Cardinality({i \in DOMAIN decisions : decisions[i].delivered})

\* A row of the table, before the step, that suppresses an alert for the
\* record the loop is at.
RecentRow ==
  \E n \in DOMAIN notifications :
    /\ notifications[n].travel_date = filtered[idx].travel_date
    /\ notifications[n].route_type = RouteSpecs[ri].route_type
    /\ notifications[n].train_number = filtered[idx].train_number
    /\ now - notifications[n].sent_timestamp < 86400

\* C5: a turn of the loop that raises nothing calls for an alert exactly when
\* the price is below 20.00 and no notification row of the key is younger
\* than 24 hours; never at 20.00.
C5_AlertDecision ==
  [][ (pc = "record" /\ pc' # "raised")
      => /\ (NewDecision /\ LastDecision.attempted)
            <=> (filtered[idx].price < 2000 /\ ~RecentRow)
         /\ filtered[idx].price = 2000 => decisions' = decisions
         /\ (filtered[idx].price = 1999 /\ notifications = <<>>)
            => (NewDecision /\ LastDecision.attempted) ]_vars

\* One alert was called for at 19.99 and one observation was suppressed.
C5_Witness ==
  /\ \E i \in DOMAIN decisions : decisions[i].attempted /\ decisions[i].price = 1999
  /\ \E i \in DOMAIN decisions : ~decisions[i].attempted

\* A fare at 20.00 went through the loop and no alert was called for.
C5_WitnessAtThreshold ==
  /\ pc = "returned"
  /\ Len(call.returned) = 1
  /\ call.returned[1].price = 2000
  /\ Len(price_history) = call.histStart + 1
  /\ decisions = <<>>

\* C6: an observation is suppressed only by a row of its key sent less than
\* 24 hours before it, one whose rows are all 24 hours old or older calls
\* for an alert, and that alert, delivered and recorded, has its own row.
C6_DedupExpiry ==
  \A i \in DOMAIN decisions :
    LET d == decisions[i]
        before == {n \in 1..d.seen : Key(notifications[n]) = Key(d)}
    IN /\ ~d.attempted
          => \E n \in before :
               /\ d.at - notifications[n].sent_timestamp < 86400
               /\ d.at - notifications[n].sent_timestamp >= 0
       /\ (\A n \in before : d.at - notifications[n].sent_timestamp >= 86400)
          => d.attempted
       /\ d.recorded
          => \E n \in (d.seen + 1)..Len(notifications) :
               /\ Key(notifications[n]) = Key(d)
               /\ notifications[n].sent_timestamp = d.at

\* Two notifications of one key, the second 24 hours or more after the first.
C6_Witness ==
  /\ Len(notifications) = 2
  /\ Key(notifications[1]) = Key(notifications[2])
  /\ notifications[2].sent_timestamp - notifications[1].sent_timestamp >= 86400
  /\ Len(decisions) = 2
  /\ decisions[2].attempted

\* The same, exactly 24 hours after the first.
C6_WitnessBoundary ==
  /\ C6_Witness
  /\ notifications[2].sent_timestamp - notifications[1].sent_timestamp = 86400

\* ------------------------------------------------- what the site really lists
\* The departure, in seconds of the day, that a departure text of the model
\* stands for; -1 for a text that is no time.
ClockSeconds(text) ==
  CASE text = <<"0", "8", ":", "1", "5">> -> 29700
    [] text = <<"8", ":", "3", "0", " ", "a", "m">> -> 30600
    [] text = <<"2", ":", "0", "0", "P", "M">> -> 50400
    [] text = <<"0", "8", ":", "0", "0">> -> 28800
    [] text = <<"0", "8", ":", "3", "0">> -> 30600
    [] text = <<"1", "4", ":", "0", "0">> -> 50400
    [] text = <<"1", "7", ":", "0", "0">> -> 61200
    [] OTHER -> -1

\* The price, in cents, that a price text of the model stands for; -1 for a
\* text that is no price.
ListedCents(text) ==
  CASE text = <<"$", "1", "9", ".", "9", "9">> -> 1999
    [] text = <<"$", "2", "0", ".", "0", "0">> -> 2000
    [] text = <<"$", "1", "8", ".", "5", "0">> -> 1850
    [] OTHER -> -1

\* The window of route spec r: 08:00 to 08:30, or 14:00 to 17:00.
WindowLow(r) == IF r = 1 THEN 28800 ELSE 50400

WindowHigh(r) == IF r = 1 THEN 30600 ELSE 61200

InWindow(text, r) ==
  WindowLow(r) <= ClockSeconds(text) /\ ClockSeconds(text) <= WindowHigh(r)

\* The elements of the page of the last call that are well formed and depart
\* in the window of route spec r.
GoodElements(r) ==
  {i \in DOMAIN call.raw :
     /\ call.raw[i].fault = "none"
     /\ ListedCents(call.raw[i].price) # -1
     /\ InWindow(call.raw[i].departure_time, r)}

HasStale == \E i \in DOMAIN call.raw : call.raw[i].fault = "Other"

\* The rows the last call added to price_history.
Added ==
  [i \in 1..(Len(price_history) - call.histStart) |-> price_history[call.histStart + i]]

\* C7: when check_route returns, the rows it added to price_history are the
\* records it returns, one for one, all of them depart in the window, and
\* every well formed element of the page that departs in the window has its
\* row, whatever became of its alert.
C7_HistoryPersistence ==
  pc = "returned"
  => /\ Len(Added) = Len(call.returned)
     /\ \A i \in DOMAIN Added :
          /\ Added[i].train_number = call.returned[i].train_number
          /\ Added[i].departure_time = call.returned[i].departure_time
          /\ Added[i].price = call.returned[i].price
          /\ Added[i].travel_date = call.returned[i].travel_date
          /\ Added[i].route_type = RouteSpecs[ri].route_type
          /\ Added[i].check_timestamp = now
          /\ Added[i].id = call.histStart + i
          /\ InWindow(Added[i].departure_time, ri)
     /\ ~HasStale
        => \A e \in GoodElements(ri) :
             \E i \in DOMAIN Added :
               /\ Added[i].departure_time = call.raw[e].departure_time
               /\ Added[i].price = ListedCents(call.raw[e].price)
               /\ Added[i].train_number = call.raw[e].train_number

\* A check returns two records of one key: the alert for the first was not
\* delivered, the alert for the second was delivered and recorded.
\* Both have their rows.
C7_Witness ==
  /\ pc = "returned"
  /\ Len(call.returned) = 2
  /\ Len(Added) = 2
  /\ Len(decisions) = 2
  /\ Key(decisions[1]) = Key(decisions[2])
  /\ decisions[1].attempted /\ ~decisions[1].delivered
  /\ decisions[2].recorded

\* A check returns two records of one key, the first alerted and the second
\* suppressed by it.
C7_WitnessSuppressed ==
  /\ pc = "returned"
  /\ Len(Added) = 2
  /\ Len(decisions) = 2
  /\ decisions[1].recorded
  /\ ~decisions[2].attempted

\* The sources of a call that are failures of the fare source.
SourceFailures == {"driver_fail", "timeout", "error", "no_results"}

\* C8: a check whose fare source failed returns the empty list, raises
\* nothing and writes no row.
C8_SourceFailureDegraded ==
  (pc \in {"returned", "raised"} /\ call.source \in SourceFailures)
  => /\ pc = "returned"
     /\ call.returned = <<>>
     /\ Len(price_history) = call.histStart
     /\ Len(notifications) = call.notifStart

\* An element of the page that fails on its own: no price element, a price
\* text that is no number, a departure text that is no time.
Failing(e) ==
  \/ e.fault = "NoSuchElement"
  \/ (e.fault = "none" /\ ListedCents(e.price) = -1)
  \/ (e.fault = "none" /\ ClockSeconds(e.departure_time) = -1)

\* C9: on a page with an element that fails on its own, the check returns
\* with one row for each well formed element that departs in the window, and
\* whatever is raised is raised by the database.
C9_RecordFailureSkipsOne ==
  ((\E i \in DOMAIN call.raw : Failing(call.raw[i])) /\ ~HasStale)
  => /\ pc = "returned" => Len(Added) = Cardinality(GoodElements(ri))
     /\ pc = "raised" => call.error = "StorageError"

\* A page of a failing element and a well formed sibling: one row.
C9_Witness ==
  /\ pc = "returned"
  /\ Len(call.raw) = 2
  /\ Failing(call.raw[1])
  /\ ~Failing(call.raw[2])
  /\ Cardinality(GoodElements(ri)) = 1
  /\ Len(Added) = 1

\* C10: after a database error in a check that is not the last of its cycle,
\* the cycle goes on with the next check.
C10_CheckErrorKeepsCycle ==
  [][ (pc = "raised" /\ call.error = "StorageError"
       /\ ~(di = Len(working_days) /\ ri = Len(RouteSpecs)))
      => (pc' = "check" /\ cycles' = cycles /\ working_days' = working_days) ]_vars

\* -------------------------------------------------------- the continuous loop
\* C11: in continuous mode a cycle that raises an error leads to the handler,
\* which releases the driver and writes nothing, then to the backoff of 300
\* seconds and to a new cycle; the loop ends only by an operator interrupt;
\* and a failed cycle is followed by a new cycle unless the operator
\* interrupts first.
C11_LoopSurvivesFailure ==
  /\ [][ /\ (pc = "raised" /\ mode = "monitor" /\ pc' \notin {"stopped", "killed"})
            => /\ pc' = "backoff"
               /\ ~driver'
               /\ now' = now
               /\ price_history' = price_history
               /\ notifications' = notifications
         /\ (pc = "backoff" /\ pc' \notin {"stopped", "killed"})
            => /\ pc' = "cycle_start"
               /\ now' = now + 300
               /\ mode' = "monitor"
         /\ (mode = "monitor" /\ pc \in Running /\ pc' \notin Running)
            => pc' \in {"stopped", "killed"} ]_vars
  /\ (pc = "raised" /\ mode = "monitor" /\ cycles < MaxCycles)
       ~> (pc \in {"cycle_start", "stopped", "killed"})

\* A cycle of the loop has failed at its first check, and the next cycle has
\* started 300 seconds later with the driver released.
C11_Witness ==
  /\ mode = "monitor"
  /\ pc = "check"
  /\ cycles = 2
  /\ checks = <<>>
  /\ ~driver
  /\ Len(price_history) = 0
  /\ now = 3 * 86400 + 300

\* ------------------------------------------------------- get_working_days
\* C12: get_working_days(n) called on any day of the week returns n dates in
\* strictly increasing order, all after today, none a Saturday or a Sunday,
\* with no Monday to Friday between tomorrow and the last of them left out;
\* on a Friday with n = 5 they are the Monday to the Friday of the week after.
C12_WorkingDays ==
  applied.fn = "get_working_days"
  => LET r == applied.result
         n == applied.num_days
         today == now \div 86400
     IN /\ Len(r) = n
        /\ \A i \in 1..n : r[i] > today /\ r[i] % 7 \in 0..4
        /\ \A i \in 1..(n - 1) : r[i] < r[i + 1]
        /\ n > 0 => \A d \in (today + 1)..r[n] :
                      d % 7 \in 0..4 => \E i \in 1..n : r[i] = d
        /\ (today % 7 = 4 /\ n = 5)
           => r = <<today + 3, today + 4, today + 5, today + 6, today + 7>>

\* Called with 5 in the last second of a Friday: the Monday to the Friday after.
C12_Witness ==
  /\ applied.fn = "get_working_days"
  /\ now = 4 * 86400 + 86399
  /\ applied.num_days = 5
  /\ applied.result = <<7, 8, 9, 10, 11>>

\* Called with 0: the empty list.
C12_WitnessNone ==
  /\ applied.fn = "get_working_days"
  /\ applied.num_days = 0
  /\ applied.result = <<>>

\* -------------------------------------------------- filter_by_time_window
\* A record whose departure text is a time.
Parseable(train) == ClockSeconds(train.departure_time) # -1

\* C13: for a window from s to e with s <= e, the records with a departure
\* time that filter_by_time_window keeps are those that depart from s to e,
\* both ends included, in the order they came in; a record that departs at s
\* or at e is kept.
C13_WindowInclusive ==
  applied.fn = "filter_by_time_window"
  => LET s == ClockSeconds(applied.start_time)
         e == ClockSeconds(applied.end_time)
         Departs(train) == ClockSeconds(train.departure_time)
         Inside(train) == Parseable(train) /\ s <= Departs(train) /\ Departs(train) <= e
     IN s <= e
        => /\ SelectSeq(applied.result, Parseable) = SelectSeq(applied.trains, Inside)
           /\ \A i \in DOMAIN applied.trains :
                Departs(applied.trains[i]) \in {s, e}
                => \E j \in DOMAIN applied.result : applied.result[j] = applied.trains[i]

\* The window 08:15 to 08:30 on a train at 08:15 and one at 8:30 am: both
\* are kept, in their order.
C13_Witness ==
  /\ applied.fn = "filter_by_time_window"
  /\ applied.start_time = <<"0", "8", ":", "1", "5">>
  /\ applied.end_time = <<"0", "8", ":", "3", "0">>
  /\ Len(applied.trains) = 2
  /\ applied.trains[1].departure_time = <<"0", "8", ":", "1", "5">>
  /\ applied.trains[2].departure_time = <<"8", ":", "3", "0", " ", "a", "m">>
  /\ applied.result = applied.trains

\* The window 08:00 to 08:15 on a train at 8:30 am and one at 08:15: the
\* second alone is kept.
C13_WitnessDropped ==
  /\ applied.fn = "filter_by_time_window"
  /\ applied.start_time = <<"0", "8", ":", "0", "0">>
  /\ applied.end_time = <<"0", "8", ":", "1", "5">>
  /\ Len(applied.trains) = 2
  /\ applied.trains[1].departure_time = <<"8", ":", "3", "0", " ", "a", "m">>
  /\ applied.result = <<applied.trains[2]>>

\* ------------------------------------------------------------ the dedup key
\* The notification rows a decision saw that were less than 24 hours old.
Young(d) == {n \in 1..d.seen : d.at - notifications[n].sent_timestamp < 86400}

\* Rows x and y differ in exactly one of travel date, route label and train.
DifferInOne(x, y) ==
  Cardinality({c \in 1..3 : Key(x)[c] # Key(y)[c]}) = 1

\* C14: a fare below the threshold is suppressed when a notification row less
\* than 24 hours old has its travel date, route label and train, whatever the
\* two prices are, and calls for an alert when every such row differs from it
\* in the travel date, the route label or the train.
C14_KeyIsTriple ==
  \A i \in DOMAIN decisions :
    LET d == decisions[i]
    IN /\ (\E n \in Young(d) : Key(notifications[n]) = Key(d)) => ~d.attempted
       /\ (\A n \in Young(d) : Key(notifications[n]) # Key(d)) => d.attempted

\* A train is alerted at 19.99, then seen at 18.50 and suppressed, then seen
\* the same day under another route label and alerted.
C14_Witness ==
  /\ Len(decisions) = 3
  /\ decisions[1].recorded /\ decisions[1].price = 1999
  /\ Key(decisions[2]) = Key(decisions[1])
  /\ decisions[2].price = 1850
  /\ ~decisions[2].attempted
  /\ DifferInOne(decisions[3], decisions[1])
  /\ decisions[3].route_type # decisions[1].route_type
  /\ decisions[3].seen = 1
  /\ decisions[3].attempted

\* A row of one train does not suppress another train of the date and route.
C14_WitnessTrain ==
  /\ Len(decisions) = 2
  /\ decisions[1].recorded
  /\ DifferInOne(decisions[2], decisions[1])
  /\ decisions[2].train_number # decisions[1].train_number
  /\ decisions[2].seen = 1
  /\ decisions[2].attempted

\* A row of one travel date does not suppress the train on another date.
C14_WitnessDate ==
  /\ Len(decisions) = 2
  /\ decisions[1].recorded
  /\ DifferInOne(decisions[2], decisions[1])
  /\ decisions[2].travel_date # decisions[1].travel_date
  /\ decisions[2].seen = 1
  /\ decisions[2].attempted

\* ---------------------------------------------------------------- the tables
\* Table t2 is table t1 with rows appended, each with an id above every id of t1.
Grown(t1, t2) ==
  /\ Len(t1) <= Len(t2)
  /\ SubSeq(t2, 1, Len(t1)) = t1
  /\ \A i \in (Len(t1) + 1)..Len(t2) : \A j \in 1..(i - 1) : t2[j].id < t2[i].id

\* C15: every step of the monitor leaves the rows of price_history and of
\* notifications as they were and in place, and adds rows only at the end,
\* with larger ids.
C15_AppendOnly ==
  [][Grown(price_history, price_history') /\ Grown(notifications, notifications')]_vars

\* A second cycle of the loop has added a second row to price_history and
\* has then failed on a database error; the rows are there in the backoff.
C15_Witness ==
  /\ pc = "backoff"
  /\ cycles = 2
  /\ Len(price_history) = 2
  /\ price_history[1].check_timestamp < price_history[2].check_timestamp
  /\ Len(notifications) = 1

\* ----------------------------------------------------------------- the driver
\* C16: the driver is released when a cycle has ended, normally or by an
\* error, in continuous mode and in a single cycle: none is held when the
\* next cycle starts, in the sleeps of the loop, when the single cycle has
\* returned or died, or when the process is gone.
C16_SessionCycleScoped ==
  pc \in {"cycle_start", "sleep", "backoff", "done", "died", "idle"} => ~driver

\* C17: once an operator interrupt has ended the loop of continuous mode,
\* wherever it arrived, the driver has been released.
C17_OrderlyStop ==
  (mode = "monitor" /\ pc \in {"stopped", "killed"}) => ~driver

\* ------------------------------------------------------------------ the cycle
\* The route labels in the order they are declared.
Declared == <<"MORNING_OUTBOUND", "AFTERNOON_RETURN_PJC", "AFTERNOON_RETURN_TRE">>

\* C18: a cycle that has completed has made 15 checks, one for each pair of
\* one of 5 dates and one of the 3 route labels: the dates are the next 5
\* Mondays to Fridays after the day the cycle started, in ascending order,
\* and for each date the labels come in declared order; and at no time has a
\* check started before the one before it returned.
C18_CoverageAndOrder ==
  /\ \A k \in 1..(Len(checks) - 1) : checks[k].returned
  /\ pc \in {"sleep", "done"}
     => /\ Len(checks) = 15
        /\ Cardinality({<<checks[k].travel_date, checks[k].route_type>> : k \in 1..15}) = 15
        /\ \A k \in 1..15 :
             /\ checks[k].returned
             /\ checks[k].route_type = Declared[((k - 1) % 3) + 1]
             /\ checks[k].travel_date % 7 \in 0..4
             /\ checks[k].travel_date > checks[1].at \div 86400
        /\ \A k \in 1..14 :
             IF k % 3 = 0
             THEN checks[k].travel_date < checks[k + 1].travel_date
             ELSE checks[k].travel_date = checks[k + 1].travel_date
        /\ \A d \in ((checks[1].at \div 86400) + 1)..checks[15].travel_date :
             d % 7 \in 0..4 => \E k \in 1..15 : checks[k].travel_date = d

\* A cycle that saw a fare and alerted for it has completed.
C18_Witness ==
  /\ pc \in {"sleep", "done"}
  /\ Len(checks) = 15
  /\ checks[15].route_type = "AFTERNOON_RETURN_TRE"
  /\ Len(price_history) = 1
  /\ Len(notifications) = 1

\* C19: between any two consecutive checks of a cycle the pacing delay of 3
\* seconds has passed, also between the last check of one date and the first
\* check of the next date.
C19_PacedChecks ==
  \A k \in 1..(Len(checks) - 1) : checks[k + 1].at - checks[k].at >= 3

\* ------------------------------------------------- notifications and history
\* C20: every row of notifications has a price below 20.00, and price_history
\* has a row of the same travel date, route label, train and price that was
\* written no later than it.
C20_NotificationBacked ==
  \A n \in DOMAIN notifications :
    /\ notifications[n].price < 2000
    /\ \E h \in DOMAIN price_history :
         /\ Key(price_history[h]) = Key(notifications[n])
         /\ price_history[h].price = notifications[n].price
         /\ price_history[h].check_timestamp <= notifications[n].sent_timestamp

\* A fare at 20.00 has its row and no notification; the fare at 19.99 seen
\* later has its row and the notification written with it.
C20_Witness ==
  /\ Len(price_history) = 2
  /\ price_history[1].price = 2000
  /\ price_history[2].price = 1999
  /\ Len(notifications) = 1
  /\ Key(notifications[1]) = Key(price_history[2])
  /\ notifications[1].sent_timestamp = price_history[2].check_timestamp

====
